---- MODULE Spec2Model ----
(***************************************************************************)
(* A model of grid.py: the Grid layout manager for DearPyGui.              *)
(*                                                                         *)
(* The state is one Grid object (its two axes, padding, spacing and item   *)
(* registry), the host's rect of the target item, and the configure_item   *)
(* calls of the most recent redraw.  Every public method is one action.    *)
(*                                                                         *)
(* Numbers.  Weights are floats in the source; here a weight is an integer *)
(* number of tenths (1.0 is 10, the floor 0.2 is 2).  The layout divides   *)
(* by the weight sum and halves the spacing, so every horizontal quantity  *)
(* is kept exactly as an integer numerator over K = 2 * (sum of the column *)
(* weights), every vertical one over 2 * (sum of the row weights).  int()  *)
(* is truncation toward zero of numerator / K.  The arithmetic is exact    *)
(* rational arithmetic: binary rounding of the floats is not modelled.     *)
(*                                                                         *)
(* Optional arguments: None (and the empty tuple ()) is <<>>, a supplied   *)
(* value v is <<v>> (a supplied pair is <<x, y>>).                         *)
(***************************************************************************)
EXTENDS Integers, Sequences, FiniteSets, TLC

VARIABLES
    alive,      \* TRUE iff __init__ returned a Grid (FALSE: it raised)
    _rows,      \* Grid._rows: sequence of GridSeries (y axis)
    _cols,      \* Grid._cols: sequence of GridSeries (x axis)
    _spacing,   \* Grid._spacing: <<x, y>>
    _padding,   \* Grid._padding: <<x, y>>
    _items,     \* Grid._items: the dict, as the sequence of its values in insertion order
    target,     \* the host's configuration of the target item: <<width, height>>
    writes,     \* the configure_item calls of the most recent redraw, in order
    packLog,    \* history: the pack calls still registered, oldest first
    last        \* the most recent call: [op, args, err, ret]

vars == <<alive, _rows, _cols, _spacing, _padding, _items, target, writes, packLog, last>>

gridState == <<_rows, _cols, _spacing, _padding, _items>>

----------------------------------------------------------------------------
(* Program constants *)

SIZED == 0
FIXED == 1
DefaultWeight == 10
WeightFloor == 2

(* Bounds of the model *)

MaxCount == 6        \* largest row/column count asked for in Spec
MaxSeriesCount == 3  \* largest row count in SpecSeries
MaxPackCount == 2    \* largest row/column count asked for in SpecPack
MaxGeomCount == 2    \* largest row/column count in SpecGeom
FarIndex == 10       \* an index beyond every axis of the model
BigWeight == 20      \* a weight above the default (2.0)
SomeSize == 7        \* a non-zero series size
SomePad == 2         \* a non-zero padding
SomeGap == 4         \* a non-zero spacing
TargetSmall == 3     \* a target extent smaller than twice SomePad
TargetLarge == 24    \* a target extent
SomeMax == 5         \* a non-zero max_width / max_height

----------------------------------------------------------------------------
(* Python helpers *)

None == <<>>

IsNone(v) == v = <<>>

Val(v) == v[1]

\* list[i] raises IndexError unless -len <= i < len
InRange(i, n) == -n <= i /\ i < n

\* list[i] for an index in range: negative indices count from the end
PyIndex(i, n) == IF i < 0 THEN i + n + 1 ELSE i + 1

\* `x or 0` for an optional int
OrZero(v) == IF IsNone(v) THEN 0 ELSE Val(v)

\* int(numerator / denominator): truncation toward zero (denominator > 0)
Trunc(n, d) == IF n >= 0 THEN n \div d ELSE -((-n) \div d)

----------------------------------------------------------------------------
(* GridSeries and the axis helpers *)

GridSeries == [weight |-> DefaultWeight, size |-> 0, policy |-> SIZED]

NewSeries(count) == [i \in 1..count |-> GridSeries]

\* what `del arr[-1:stop:-1]` leaves of a list of length n: the slice runs from the
\* last index down to, not including, the normalised stop
KeptAfterDel(n, stop) ==
    LET s == IF stop < 0
             THEN (IF stop + n < 0 THEN -1 ELSE stop + n)
             ELSE (IF stop >= n THEN n - 1 ELSE stop)
    IN  IF s + 1 > n THEN n ELSE s + 1

_resize_axis(arr, amount) ==
    IF amount >= Len(arr)
    THEN arr \o NewSeries(amount)
    ELSE SubSeq(arr, 1, KeptAfterDel(Len(arr), amount - 1))

RECURSIVE SumWeights(_, _)
SumWeights(arr, i) ==
    IF i > Len(arr) THEN 0 ELSE arr[i].weight + SumWeights(arr, i + 1)

_iter_weights(arr) == SumWeights(arr, 1)

----------------------------------------------------------------------------
(* _get_cells: the layout of one axis.  The source computes the columns   *)
(* inside the loop over the rows, from scratch for every row, so a cell's  *)
(* horizontal rect depends on its column alone and its vertical rect on    *)
(* its row alone; both loops are the same computation, AxisCells.          *)
(* Quantities are numerators over K = 2 * sumW.                            *)

\* row_height / col_width: the un-trimmed size of one series
SeriesSize(cfg, cum, cont_extent, sumW) ==
    LET weighted == 2 * cont_extent * cfg.weight
        minimum  == cfg.size * 2 * sumW
    IN  IF minimum > weighted \/ cfg.policy = FIXED \/ cum > cont_extent * 2 * sumW
        THEN minimum
        ELSE weighted

\* cell_x_pos / cell_y_pos
CellPos(cont_pos, cum, spacing, sumW) == cont_pos * 2 * sumW + cum + spacing * sumW

\* CellExtent trimming only the half spacing the position was moved by
CellExtentHalfSpacing(size, spacing, sumW) == size - spacing * sumW

\* cell_width / cell_height: the size less the whole spacing
CellExtent(size, spacing, sumW) == size - spacing * 2 * sumW

RECURSIVE AxisCells(_, _, _, _, _, _, _)
AxisCells(arr, i, cum, cont_pos, cont_extent, spacing, sumW) ==
    IF i > Len(arr) THEN <<>>
    ELSE LET size == SeriesSize(arr[i], cum, cont_extent, sumW)
             cell == [pos    |-> CellPos(cont_pos, cum, spacing, sumW),
                      extent |-> CellExtent(size, spacing, sumW),
                      size   |-> size]
         IN  <<cell>> \o AxisCells(arr, i + 1, cum + size, cont_pos, cont_extent, spacing, sumW)

\* the content region: the target's extent less the padding on both sides
ContExtent(extent, pad) == extent - pad - pad

\* xs[col + 1] and ys[row + 1] make up cells[(row, col)]; kx and ky are the denominators
_get_cells(rows, cols, padding, spacing, tgt) ==
    [xs |-> AxisCells(cols, 1, 0, padding[1], ContExtent(tgt[1], padding[1]),
                      spacing[1], _iter_weights(cols)),
     ys |-> AxisCells(rows, 1, 0, padding[2], ContExtent(tgt[2], padding[2]),
                      spacing[2], _iter_weights(rows)),
     kx |-> 2 * _iter_weights(cols),
     ky |-> 2 * _iter_weights(rows)]

----------------------------------------------------------------------------
(* redraw *)

\* MergedExtent taking the end cell's extent alone
MergedExtentEndOnly(startCell, endCell) == endCell.extent

\* the extent of the merged cells, start cell to end cell (a numerator over k)
MergedExtent(startCell, endCell) == endCell.pos + endCell.extent - startCell.pos

\* "if not item_width or item_width > cell_width: item_width = cell_width", then int()
FitExtent(item_extent, cell_extent, k) ==
    IF item_extent = 0 \/ item_extent * k > cell_extent
    THEN Trunc(cell_extent, k)
    ELSE item_extent

\* the configure_item call for one record; start and end are the looked-up cell keys
RedrawItem(rec, cells, row_cnt, col_cnt) ==
    LET r1 == rec.coords1[1] % row_cnt
        c1 == rec.coords1[2] % col_cnt
        r2 == rec.coords2[1] % row_cnt
        c2 == rec.coords2[2] % col_cnt
    IN  [item   |-> rec.item,
         pos    |-> <<Trunc(cells.xs[c1 + 1].pos, cells.kx), Trunc(cells.ys[r1 + 1].pos, cells.ky)>>,
         width  |-> FitExtent(rec.width, MergedExtent(cells.xs[c1 + 1], cells.xs[c2 + 1]), cells.kx),
         height |-> FitExtent(rec.height, MergedExtent(cells.ys[r1 + 1], cells.ys[r2 + 1]), cells.ky),
         start  |-> <<r1, c1>>,
         end    |-> <<r2, c2>>]

RECURSIVE RedrawLoop(_, _, _, _, _)
RedrawLoop(items, i, cells, row_cnt, col_cnt) ==
    IF i > Len(items) THEN <<>>
    ELSE <<RedrawItem(items[i], cells, row_cnt, col_cnt)>>
         \o RedrawLoop(items, i + 1, cells, row_cnt, col_cnt)

\* redraw writing only the rects that differ from the ones written last
redrawChanged(rows, cols, padding, spacing, items, tgt) ==
    SelectSeq(RedrawLoop(items, 1, _get_cells(rows, cols, padding, spacing, tgt), Len(rows), Len(cols)),
              LAMBDA w : \A j \in 1..Len(writes) : writes[j] # w)

\* the configure_item calls redraw makes on a grid with these fields
redraw(rows, cols, padding, spacing, items, tgt) ==
    RedrawLoop(items, 1, _get_cells(rows, cols, padding, spacing, tgt), Len(rows), Len(cols))

----------------------------------------------------------------------------
(* The calls.  Each is the whole method, its trailing redraw included.     *)

Call(op, args, err, ret) == [op |-> op, args |-> args, err |-> err, ret |-> ret]

\* Grid.__init__: the state after construction, or no grid when it raises
__init__(rows, cols, spacing, padding, tgt) ==
    /\ target = tgt
    /\ writes = <<>>
    /\ packLog = <<>>
    /\ IF rows < 1 \/ cols < 1
       THEN /\ alive = FALSE
            /\ _rows = <<>>
            /\ _cols = <<>>
            /\ _spacing = <<0, 0>>
            /\ _padding = <<0, 0>>
            /\ _items = <<>>
            /\ last = Call("__init__", <<rows, cols>>, "ValueError", None)
       ELSE /\ alive = TRUE
            /\ _rows = NewSeries(rows)
            /\ _cols = NewSeries(cols)
            /\ _spacing = spacing
            /\ _padding = padding
            /\ _items = <<>>
            /\ last = Call("__init__", <<rows, cols>>, "none", None)

\* CountGiven taking only 0, the default, as "not given"
CountGivenNonZero(count) == count # 0

\* "if rows > 0" / "if cols > 0": a count below 1 is ignored
CountGiven(count) == count > 0

\* one axis after configure_grid
ResizedAxis(arr, count) ==
    IF CountGiven(count) THEN _resize_axis(arr, count - Len(arr)) ELSE arr

configure_grid(rows, cols, padding, spacing) ==
    /\ alive
    /\ _rows' = ResizedAxis(_rows, rows)
    /\ _cols' = ResizedAxis(_cols, cols)
    /\ _padding' = IF IsNone(padding) THEN _padding ELSE padding
    /\ _spacing' = IF IsNone(spacing) THEN _spacing ELSE spacing
    /\ writes' = redraw(_rows', _cols', _padding', _spacing', _items, target)
    /\ last' = Call("configure_grid", <<rows, cols, padding, spacing>>, "none", None)
    /\ UNCHANGED <<alive, _items, target, packLog>>

\* _configure_series on the list `targets`: the list afterwards and the error raised.
\* The fields are assigned one by one, each before the next argument is checked.
_configure_series(targets, index, weight, policy, size) ==
    IF ~InRange(index, Len(targets))
    THEN [targets |-> targets, err |-> "IndexError"]
    ELSE LET i  == PyIndex(index, Len(targets))
             t0 == targets[i]
         IN  IF ~IsNone(weight) /\ ~(Val(weight) >= WeightFloor)
             THEN [targets |-> targets, err |-> "ValueError"]
             ELSE LET t1 == IF IsNone(weight) THEN t0 ELSE [t0 EXCEPT !.weight = Val(weight)]
                  IN  IF ~IsNone(policy) /\ Val(policy) \notin {FIXED, SIZED}
                      THEN [targets |-> [targets EXCEPT ![i] = t1], err |-> "ValueError"]
                      ELSE LET t2 == IF IsNone(policy) THEN t1 ELSE [t1 EXCEPT !.policy = Val(policy)]
                               t3 == IF ~IsNone(size) /\ Val(size) >= 0
                                     THEN [t2 EXCEPT !.size = Val(size)]
                                     ELSE t2
                           IN  [targets |-> [targets EXCEPT ![i] = t3], err |-> "none"]

\* configure_col hands self._rows to _configure_series
configure_col(index, weight, policy, width) ==
    LET res == _configure_series(_rows, index, weight, policy, width)
    IN  /\ alive
        /\ _rows' = res.targets
        /\ writes' = IF res.err = "none"
                     THEN redraw(_rows', _cols, _padding, _spacing, _items, target)
                     ELSE writes
        /\ last' = Call("configure_col", <<index, weight, policy, width>>, res.err, None)
        /\ UNCHANGED <<alive, _cols, _padding, _spacing, _items, target, packLog>>

configure_row(index, weight, policy, height) ==
    LET res == _configure_series(_rows, index, weight, policy, height)
    IN  /\ alive
        /\ _rows' = res.targets
        /\ writes' = IF res.err = "none"
                     THEN redraw(_rows', _cols, _padding, _spacing, _items, target)
                     ELSE writes
        /\ last' = Call("configure_row", <<index, weight, policy, height>>, res.err, None)
        /\ UNCHANGED <<alive, _cols, _padding, _spacing, _items, target, packLog>>

\* _get_series_configuration: the series as a dict, or IndexError
_get_series_configuration(targets, index) ==
    IF InRange(index, Len(targets))
    THEN [err |-> "none", ret |-> <<targets[PyIndex(index, Len(targets))]>>]
    ELSE [err |-> "IndexError", ret |-> None]

get_col_configuration(index) == _get_series_configuration(_cols, index)

get_row_configuration(index) == _get_series_configuration(_rows, index)

----------------------------------------------------------------------------
(* pack *)

\* the try block of pack: rows[r1]; rows[c1]; cols[r2 or 0]; cols[c2 or 0]
PackRaises(r1, c1, r2, c2, r_count, c_count) ==
    ~(/\ InRange(r1, r_count)
      /\ InRange(c1, r_count)
      /\ InRange(OrZero(r2), c_count)
      /\ InRange(OrZero(c2), c_count))

\* "r1 = r1 % r_count if r1 != -1 else r1"
NormStart(i, count) == IF i # -1 THEN i % count ELSE i

\* "c1 = c1 % c_count if c1 != -1 else r1": r1 is already the normalised row
NormStartCol(c1, c_count, r1) == IF c1 # -1 THEN c1 % c_count ELSE r1

\* "r2 = r2 % r_count if r2 != -1 else r2", or the start index when r2 is None
NormEnd(v, count, start) ==
    IF IsNone(v) THEN start
    ELSE IF Val(v) # -1 THEN Val(v) % count ELSE Val(v)

\* "if r1 > r2 and r2 != -1: r1, r2 = r2, r1"
SwapNeeded(a, b) == a > b /\ b # -1

\* the GridItem pack stores
PackRecord(item, r1, c1, r2, c2, max_width, max_height, r_count, c_count) ==
    LET nr1 == NormStart(r1, r_count)
        nc1 == NormStartCol(c1, c_count, nr1)
        nr2 == NormEnd(r2, r_count, nr1)
        nc2 == NormEnd(c2, c_count, nc1)
        sr  == SwapNeeded(nr1, nr2)
        sc  == SwapNeeded(nc1, nc2)
    IN  [item    |-> item,
         coords1 |-> <<IF sr THEN nr2 ELSE nr1, IF sc THEN nc2 ELSE nc1>>,
         coords2 |-> <<IF sr THEN nr1 ELSE nr2, IF sc THEN nc1 ELSE nc2>>,
         width   |-> IF max_width < 0 THEN 0 ELSE max_width,
         height  |-> IF max_height < 0 THEN 0 ELSE max_height]

\* the index of the value whose key is item, 0 when there is none
RECURSIVE KeyIndex(_, _, _)
KeyIndex(items, item, i) ==
    IF i > Len(items) THEN 0
    ELSE IF items[i].item = item THEN i
    ELSE KeyIndex(items, item, i + 1)

\* self._items[item] = rec: a key already in the dict keeps its place
DictSet(items, rec) ==
    IF KeyIndex(items, rec.item, 1) = 0
    THEN Append(items, rec)
    ELSE [items EXCEPT ![KeyIndex(items, rec.item, 1)] = rec]

\* self._items.pop(item, None)
DictPop(items, item) == SelectSeq(items, LAMBDA rec : rec.item # item)

pack(item, r1, c1, r2, c2, max_width, max_height) ==
    /\ alive
    /\ IF PackRaises(r1, c1, r2, c2, Len(_rows), Len(_cols))
       THEN /\ last' = Call("pack", <<item, r1, c1, r2, c2, max_width, max_height>>, "IndexError", None)
            /\ UNCHANGED <<_items, writes, packLog>>
       ELSE /\ _items' = DictSet(_items, PackRecord(item, r1, c1, r2, c2, max_width, max_height,
                                                     Len(_rows), Len(_cols)))
            /\ writes' = redraw(_rows, _cols, _padding, _spacing, _items', target)
            /\ packLog' = Append(SelectSeq(packLog, LAMBDA e : e.item # item),
                                 [item |-> item, r1 |-> r1, c1 |-> c1, r2 |-> r2, c2 |-> c2])
            /\ last' = Call("pack", <<item, r1, c1, r2, c2, max_width, max_height>>, "none", None)
    /\ UNCHANGED <<alive, _rows, _cols, _padding, _spacing, target>>

clear ==
    /\ alive
    /\ _items' = <<>>
    /\ packLog' = <<>>
    /\ last' = Call("clear", <<>>, "none", None)
    /\ UNCHANGED <<alive, _rows, _cols, _padding, _spacing, target, writes>>

clear_item(item) ==
    /\ alive
    /\ _items' = DictPop(_items, item)
    /\ packLog' = SelectSeq(packLog, LAMBDA e : e.item # item)
    /\ last' = Call("clear_item", <<item>>, "none", None)
    /\ UNCHANGED <<alive, _rows, _cols, _padding, _spacing, target, writes>>

----------------------------------------------------------------------------
(* get_item *)

\* "row2, col2 = coords2 or row1, col1" binds row2 to (coords2 or row1): the tuple
\* coords2 when it is not empty, else the int row1
RowTwoIsTuple(rec) == rec.coords2 # <<>>

\* the loop of get_item: "row1 <= row <= row2" evaluates row <= row2 only when
\* row1 <= row, and comparing an int with a tuple raises TypeError
RECURSIVE get_item_loop(_, _, _, _)
get_item_loop(items, i, row, col) ==
    IF i > Len(items) THEN [err |-> "none", ret |-> None, found |-> FALSE]
    ELSE LET rec == items[i]
             row1 == rec.coords1[1]
             col1 == rec.coords1[2]
         IN  IF row1 <= row
             THEN IF RowTwoIsTuple(rec)
                  THEN [err |-> "TypeError", ret |-> None, found |-> FALSE]
                  ELSE IF row <= row1 /\ col1 <= col /\ col <= col1
                       THEN [err |-> "none", ret |-> <<rec.item>>, found |-> TRUE]
                       ELSE get_item_loop(items, i + 1, row, col)
             ELSE get_item_loop(items, i + 1, row, col)

get_item_result(items, row, col, r_count, c_count) ==
    LET hit == get_item_loop(items, 1, row, col)
    IN  IF hit.err # "none" \/ hit.found THEN [err |-> hit.err, ret |-> hit.ret]
        ELSE IF InRange(row, r_count) /\ InRange(col, c_count)
             THEN [err |-> "none", ret |-> None]
             ELSE [err |-> "IndexError", ret |-> None]

get_item(row, col) ==
    LET res == get_item_result(_items, row, col, Len(_rows), Len(_cols))
    IN  /\ alive
        /\ last' = Call("get_item", <<row, col>>, res.err, res.ret)
        /\ UNCHANGED <<alive, _rows, _cols, _padding, _spacing, _items, target, writes, packLog>>

----------------------------------------------------------------------------
(* redraw as a call, and the host resizing the target *)

Redraw ==
    /\ alive
    /\ writes' = redraw(_rows, _cols, _padding, _spacing, _items, target)
    /\ last' = Call("redraw", <<>>, "none", None)
    /\ UNCHANGED <<alive, _rows, _cols, _padding, _spacing, _items, target, packLog>>

\* the host gives the target item a new width and height
ResizeTarget(width, height) ==
    /\ alive
    /\ target' = <<width, height>>
    /\ last' = Call("resize", <<width, height>>, "none", None)
    /\ UNCHANGED <<alive, _rows, _cols, _padding, _spacing, _items, writes, packLog>>

----------------------------------------------------------------------------
(* Argument sets *)

Opt(S) == {None} \cup {<<v>> : v \in S}

Pairs(S) == {<<v, v>> : v \in S}

\* weights: None, one below the floor, one above the default
WeightArgs == Opt({WeightFloor - 1, BigWeight})

\* policies: None, FIXED, and a value that is no policy
PolicyArgs == Opt({FIXED, FIXED + 1})

\* sizes: None, a positive size
SizeArgs == Opt({SomeSize})

----------------------------------------------------------------------------
(* Spec: the axes.  Counts from below 1 up to MaxCount; one series given a *)
(* weight; one item packed at the first or the last row and column.        *)

Init ==
    \E rows \in 0..MaxCount, cols \in 0..MaxCount :
        __init__(rows, cols, <<0, 0>>, <<0, 0>>, <<TargetLarge, TargetLarge>>)

Next ==
    \/ \E rows \in -1..MaxCount, cols \in -1..MaxCount :
          configure_grid(rows, cols, None, None)
    \/ \E index \in {0, FarIndex} : configure_col(index, <<BigWeight>>, None, None)
    \/ \E index \in {0, FarIndex} : configure_row(index, <<BigWeight>>, None, None)
    \/ \E r1 \in {-1, 0}, c1 \in {-1, 0} : pack(1, r1, c1, None, None, 0, 0)
    \/ clear
    \/ clear_item(1)
    \/ \E row \in {0, FarIndex} : get_item(row, 0)
    \/ Redraw
    \/ ResizeTarget(TargetLarge, TargetLarge)

Spec == Init /\ [][Next]_vars

----------------------------------------------------------------------------
(* SpecSeries: configure_row and configure_col with every combination of   *)
(* a missing, a rejected and an accepted argument, on grids of up to       *)
(* MaxSeriesCount rows.                                                    *)

InitSeries ==
    \E rows \in 1..MaxSeriesCount, cols \in 1..2 :
        __init__(rows, cols, <<0, 0>>, <<0, 0>>, <<TargetLarge, TargetLarge>>)

NextSeries ==
    \/ \E cols \in 1..2, padding \in {None} \cup Pairs({SomePad}) :
          configure_grid(0, cols, padding, None)
    \/ \E index \in {0, FarIndex}, weight \in WeightArgs, policy \in PolicyArgs, width \in SizeArgs :
          configure_col(index, weight, policy, width)
    \/ \E index \in {0, FarIndex}, weight \in WeightArgs, policy \in PolicyArgs, height \in SizeArgs :
          configure_row(index, weight, policy, height)
    \/ \E r1 \in {0, FarIndex} : pack(1, r1, 0, None, None, 0, 0)
    \/ clear
    \/ clear_item(1)
    \/ \E row \in {0, FarIndex} : get_item(row, 0)
    \/ Redraw
    \/ ResizeTarget(TargetLarge, TargetLarge)

SpecSeries == InitSeries /\ [][NextSeries]_vars

----------------------------------------------------------------------------
(* SpecPack: pack and get_item.  Grids of up to MaxPackCount rows and       *)
(* columns, square or not; item 1 packed with start indices and an end row *)
(* from -1 up to MaxPackCount - 1 (in range on one grid, out of range on a *)
(* smaller one), item 2 packed along the first row.                        *)

PackIndex == -1..(MaxPackCount - 1)

InitPack ==
    \E rows \in 1..MaxPackCount, cols \in 1..MaxPackCount :
        __init__(rows, cols, <<0, 0>>, <<0, 0>>, <<TargetLarge, TargetLarge>>)

NextPack ==
    \/ \E rows \in 1..MaxPackCount, cols \in 1..MaxPackCount :
          configure_grid(rows, cols, None, None)
    \/ configure_col(0, None, None, None)
    \/ configure_row(0, None, None, None)
    \/ \E r1 \in PackIndex, c1 \in PackIndex, r2 \in Opt(PackIndex) :
          pack(1, r1, c1, r2, None, 0, 0)
    \/ pack(2, 0, 0, None, <<MaxPackCount - 1>>, 0, 0)
    \/ clear
    \/ \E item \in {1, 2} : clear_item(item)
    \/ \E row \in 0..MaxPackCount : get_item(row, 0)
    \/ Redraw
    \/ ResizeTarget(TargetLarge, TargetLarge)

SpecPack == InitPack /\ [][NextPack]_vars

----------------------------------------------------------------------------
(* SpecGeom: the geometry.  Grids of up to MaxGeomCount rows and columns   *)
(* with and without padding and spacing, in a target that is larger or     *)
(* smaller than twice the padding; one series given a weight, the FIXED    *)
(* policy or a size; one item, over one cell or a range, with and without  *)
(* a maximum width.                                                        *)

TargetRects == Pairs({TargetSmall, TargetLarge})

InitGeom ==
    \E rows \in 1..MaxGeomCount, cols \in 1..MaxGeomCount,
       spacing \in Pairs({0, SomeGap}), padding \in Pairs({0, SomePad}), tgt \in TargetRects :
        __init__(rows, cols, spacing, padding, tgt)

NextGeom ==
    \/ \E count \in {1, MaxGeomCount} : configure_grid(count, count, None, None)
    \/ configure_grid(0, 0, <<SomePad, SomePad>>, <<SomeGap, SomeGap>>)
    \/ configure_col(0, <<BigWeight>>, None, None)
    \/ configure_row(0, <<BigWeight>>, None, None)
    \/ configure_row(0, None, <<FIXED>>, None)
    \/ configure_row(0, None, None, <<SomeSize>>)
    \/ \E r1 \in {0, -1}, c2 \in Opt({-1}), max_width \in {0, SomeMax} :
          pack(1, r1, 0, None, c2, max_width, 0)
    \/ pack(1, 0, 0, <<MaxGeomCount - 1>>, <<MaxGeomCount - 1>>, 0, 0)
    \/ clear
    \/ clear_item(1)
    \/ get_item(0, 0)
    \/ Redraw
    \/ \E tgt \in TargetRects : ResizeTarget(tgt[1], tgt[2])

SpecGeom == InitGeom /\ [][NextGeom]_vars

----------------------------------------------------------------------------
(* Reading a step: the call that made it, the record and the write of an   *)
(* item.                                                                   *)

Min(a, b) == IF a < b THEN a ELSE b

Max(a, b) == IF a > b THEN a ELSE b

RecordOf(items, item) == items[KeyIndex(items, item, 1)]

\* the calls that end with a redraw when they do not raise
DrawingOps == {"configure_grid", "configure_row", "configure_col", "pack", "redraw"}

----------------------------------------------------------------------------
(* C1 *)

\* what configure_grid(count) is to make of one axis: exactly count series, the
\* old ones kept in place, the appended ones default
AxisSetTo(old, new, count) ==
    /\ Len(new) = count
    /\ \A i \in 1..Min(Len(old), count) : new[i] = old[i]
    /\ \A i \in (Len(old) + 1)..count : new[i] = GridSeries

\* C1: after configure_grid(rows=n) or configure_grid(cols=n) with n >= 1 the axis
\* has exactly n series: growing keeps the old series and appends default ones
\* (weight 1.0, size 0, SIZED), shrinking removes from the tail.
C1_AxisHasRequestedCount ==
    [][last'.op = "configure_grid" =>
          /\ last'.args[1] >= 1 => AxisSetTo(_rows, _rows', last'.args[1])
          /\ last'.args[2] >= 1 => AxisSetTo(_cols, _cols', last'.args[2])]_vars

----------------------------------------------------------------------------
(* C3 *)

\* C3: an item packed at row -1 (column -1) is stored with the raw -1, every redraw
\* places it at the last row (column) of the grid as it is then, and after
\* configure_grid(rows=n) that is row n - 1 (after cols=n, column n - 1).
C3_SentinelFollowsLastSeries ==
    [][/\ (last'.op = "pack" /\ last'.err = "none") =>
             /\ last'.args[2] = -1 => RecordOf(_items', last'.args[1]).coords1[1] = -1
             /\ last'.args[3] = -1 => RecordOf(_items', last'.args[1]).coords1[2] = -1
       /\ (last'.op \in DrawingOps /\ last'.err = "none") =>
             /\ Len(writes') = Len(_items')
             /\ \A i \in 1..Len(_items') :
                   /\ _items'[i].coords1[1] = -1 => writes'[i].start[1] = Len(_rows') - 1
                   /\ _items'[i].coords1[2] = -1 => writes'[i].start[2] = Len(_cols') - 1
       /\ last'.op = "configure_grid" =>
             \A i \in 1..Len(_items') :
                   /\ (_items'[i].coords1[1] = -1 /\ last'.args[1] >= 1)
                         => writes'[i].start[1] = last'.args[1] - 1
                   /\ (_items'[i].coords1[2] = -1 /\ last'.args[2] >= 1)
                         => writes'[i].start[2] = last'.args[2] - 1]_vars

----------------------------------------------------------------------------
(* C7 *)

\* C7: a constructed grid always has at least one row and one column, whatever
\* counts configure_grid is given, and construction with rows < 1 or cols < 1
\* raises and yields no grid.
C7_CountsAtLeastOne ==
    /\ alive => (Len(_rows) >= 1 /\ Len(_cols) >= 1)
    /\ (last.op = "__init__" /\ (last.args[1] < 1 \/ last.args[2] < 1))
          => (~alive /\ last.err = "ValueError")
    /\ (last.op = "__init__" /\ last.args[1] >= 1 /\ last.args[2] >= 1)
          => (alive /\ Len(_rows) = last.args[1] /\ Len(_cols) = last.args[2])

\* a grid holding an item has just been given a row count below 1 together with a
\* column count that is not its old one
C7_Witness ==
    /\ alive
    /\ last.op = "configure_grid"
    /\ last.args[1] < 1
    /\ last.args[2] > 1
    /\ Len(_cols) < last.args[2]
    /\ Len(_rows) > 1
    /\ Len(_items) = 1

----------------------------------------------------------------------------
(* C5 *)

\* C5: a call to configure_row, configure_col, pack or get_item that raises leaves
\* every series, the padding, the spacing and the item registry as they were.
C5_ErrorLeavesStateUnchanged ==
    [][(last'.op \in {"configure_row", "configure_col", "pack", "get_item"} /\ last'.err # "none")
          => UNCHANGED gridState]_vars

----------------------------------------------------------------------------
(* C6 *)

\* the series a successful configure call is to leave at index i of its axis
ConfiguredSeries(old, weight, policy, size) ==
    [weight |-> IF IsNone(weight) THEN old.weight ELSE Val(weight),
     size   |-> IF IsNone(size) THEN old.size ELSE Val(size),
     policy |-> IF IsNone(policy) THEN old.policy ELSE Val(policy)]

\* the axis `new` is the axis `old` with the series at Python index `index` configured
OnlySeriesConfigured(old, new, index, weight, policy, size) ==
    /\ InRange(index, Len(old))
    /\ new = [old EXCEPT ![PyIndex(index, Len(old))] =
                 ConfiguredSeries(old[PyIndex(index, Len(old))], weight, policy, size)]

\* C6: a successful configure_col(i, ...) changes the column series i alone, to the
\* supplied values (get_col_configuration(i) reports them), and no row; a
\* successful configure_row(i, ...) changes the row series i alone and no column.
C6_ConfigureTouchesOneSeries ==
    [][/\ (last'.op = "configure_col" /\ last'.err = "none") =>
             /\ OnlySeriesConfigured(_cols, _cols', last'.args[1], last'.args[2],
                                     last'.args[3], last'.args[4])
             /\ _get_series_configuration(_cols', last'.args[1]).ret
                   = <<ConfiguredSeries(_cols[PyIndex(last'.args[1], Len(_cols))],
                                        last'.args[2], last'.args[3], last'.args[4])>>
             /\ _rows' = _rows
       /\ (last'.op = "configure_row" /\ last'.err = "none") =>
             /\ OnlySeriesConfigured(_rows, _rows', last'.args[1], last'.args[2],
                                     last'.args[3], last'.args[4])
             /\ _cols' = _cols]_vars

----------------------------------------------------------------------------
(* C2 *)

\* the cell range a pack call asks for, resolved on the grid as it is now
AskedLow(a, b, count) ==
    Min(a % count, IF IsNone(b) THEN a % count ELSE Val(b) % count)

AskedHigh(a, b, count) ==
    Max(a % count, IF IsNone(b) THEN a % count ELSE Val(b) % count)

Covers(e, row, col) ==
    /\ AskedLow(e.r1, e.r2, Len(_rows)) <= row
    /\ row <= AskedHigh(e.r1, e.r2, Len(_rows))
    /\ AskedLow(e.c1, e.c2, Len(_cols)) <= col
    /\ col <= AskedHigh(e.c1, e.c2, Len(_cols))

\* the registered pack calls whose range holds the cell, oldest first
Covering(row, col) == SelectSeq(packLog, LAMBDA e : Covers(e, row, col))

\* C2: for every valid cell, get_item returns, without raising, the item of the
\* most recent pack call whose cell range contains the cell.
C2_GetItemReturnsLatestPack ==
    (/\ last.op = "get_item"
     /\ 0 <= last.args[1] /\ last.args[1] < Len(_rows)
     /\ 0 <= last.args[2] /\ last.args[2] < Len(_cols))
    => /\ last.err = "none"
       /\ Covering(last.args[1], last.args[2]) # <<>>
             => last.ret = <<Covering(last.args[1], last.args[2])
                                [Len(Covering(last.args[1], last.args[2]))].item>>

----------------------------------------------------------------------------
(* C4 *)

\* every supplied index is within the bounds of its own axis
IndicesInRange(r1, c1, r2, c2, r_count, c_count) ==
    /\ InRange(r1, r_count)
    /\ InRange(c1, c_count)
    /\ IsNone(r2) \/ InRange(Val(r2), r_count)
    /\ IsNone(c2) \/ InRange(Val(c2), c_count)

\* C4: pack raises IndexError exactly when a supplied index is outside the bounds
\* of its own axis (rows for r1 and r2, columns for c1 and c2).
C4_PackRaisesIffOutOfRange ==
    last.op = "pack" =>
        (last.err = "IndexError"
            <=> ~IndicesInRange(last.args[2], last.args[3], last.args[4], last.args[5],
                                Len(_rows), Len(_cols)))

----------------------------------------------------------------------------
(* C8 *)

\* C8: every record's indices, normalised modulo the current axis lengths, satisfy
\* 0 <= start.row <= end.row < rowCount and 0 <= start.col <= end.col < colCount.
C8_RecordsAreOrderedRanges ==
    alive =>
        \A i \in 1..Len(_items) :
            /\ 0 <= _items[i].coords1[1] % Len(_rows)
            /\ _items[i].coords1[1] % Len(_rows) <= _items[i].coords2[1] % Len(_rows)
            /\ _items[i].coords2[1] % Len(_rows) < Len(_rows)
            /\ 0 <= _items[i].coords1[2] % Len(_cols)
            /\ _items[i].coords1[2] % Len(_cols) <= _items[i].coords2[2] % Len(_cols)
            /\ _items[i].coords2[2] % Len(_cols) < Len(_cols)

----------------------------------------------------------------------------
(* C9 *)

----------------------------------------------------------------------------
(* C10 *)

\* the grid has just been laid out by a call and every series of both axes has the
\* same weight, size 0 and the SIZED policy
AllUniform ==
    /\ last.op \in DrawingOps
    /\ last.err = "none"
    /\ \A arr \in {_rows, _cols} : \A i \in 1..Len(arr) :
           /\ arr[i].weight = _cols[1].weight
           /\ arr[i].size = 0
           /\ arr[i].policy = SIZED

Cells == _get_cells(_rows, _cols, _padding, _spacing, target)

RECURSIVE SumUntrimmed(_, _, _, _)
\* the sum over the first n cells of (cell extent + spacing), a numerator over k
SumUntrimmed(axis, n, spacing, k) ==
    IF n = 0 THEN 0
    ELSE axis[n].extent + spacing * k + SumUntrimmed(axis, n - 1, spacing, k)

\* the extents of one axis add up to the content extent
AxisFillsContent(axis, spacing, k, pad, extent) ==
    SumUntrimmed(axis, Len(axis), spacing, k) = ContExtent(extent, pad) * k

\* each cell starts at the content origin plus the un-trimmed extents before it plus
\* half the spacing (all doubled, to stay in whole numerators)
AxisPositions(axis, spacing, k, pad) ==
    \A i \in 1..Len(axis) :
        2 * axis[i].pos = 2 * pad * k + 2 * SumUntrimmed(axis, i - 1, spacing, k) + spacing * k

\* C10 as stated: on a uniform grid the cells of a row add up, with the spacing, to
\* the content width and each starts after the un-trimmed widths before it plus
\* half the spacing; the same for the rows and heights.
C10_UniformCellsFillContent ==
    (alive /\ AllUniform) =>
        /\ AxisFillsContent(Cells.xs, _spacing[1], Cells.kx, _padding[1], target[1])
        /\ AxisFillsContent(Cells.ys, _spacing[2], Cells.ky, _padding[2], target[2])
        /\ AxisPositions(Cells.xs, _spacing[1], Cells.kx, _padding[1])
        /\ AxisPositions(Cells.ys, _spacing[2], Cells.ky, _padding[2])

\* C10 amended: the sums equal the content width (height) when that content width
\* (height) is not negative, that is when the target is at least twice the padding
\* wide (high); the positions are as stated in every case.
C10_UniformCellsFillNonNegativeContent ==
    (alive /\ AllUniform) =>
        /\ ContExtent(target[1], _padding[1]) >= 0
              => AxisFillsContent(Cells.xs, _spacing[1], Cells.kx, _padding[1], target[1])
        /\ ContExtent(target[2], _padding[2]) >= 0
              => AxisFillsContent(Cells.ys, _spacing[2], Cells.ky, _padding[2], target[2])
        /\ AxisPositions(Cells.xs, _spacing[1], Cells.kx, _padding[1])
        /\ AxisPositions(Cells.ys, _spacing[2], Cells.ky, _padding[2])

\* a uniform grid of several rows and columns with padding and spacing, in a target
\* wider than twice the padding, has just been laid out for an item
C10_Witness ==
    /\ alive /\ AllUniform
    /\ Len(_rows) > 1 /\ Len(_cols) > 1
    /\ _spacing[1] > 0 /\ _padding[1] > 0
    /\ ContExtent(target[1], _padding[1]) > 0
    /\ last.op = "redraw"
    /\ Len(writes) = 1

----------------------------------------------------------------------------
(* C11 *)

\* the rects in writes are the ones the last call wrote for the records of _items
LaidOut ==
    /\ alive
    /\ last.op \in DrawingOps
    /\ last.err = "none"

\* the cells a record's start and end select, on each axis
StartCol(rec) == Cells.xs[(rec.coords1[2] % Len(_cols)) + 1]

EndCol(rec) == Cells.xs[(rec.coords2[2] % Len(_cols)) + 1]

StartRow(rec) == Cells.ys[(rec.coords1[1] % Len(_rows)) + 1]

EndRow(rec) == Cells.ys[(rec.coords2[1] % Len(_rows)) + 1]

Unconstrained(rec) == rec.width = 0 /\ rec.height = 0

\* the record covers the whole of a grid of two rows and two columns, (0,0)-(1,1)
CoversTwoByTwo(rec) ==
    /\ Len(_rows) = 2 /\ Len(_cols) = 2
    /\ rec.coords1[1] % 2 = 0 /\ rec.coords1[2] % 2 = 0
    /\ rec.coords2[1] % 2 = 1 /\ rec.coords2[2] % 2 = 1

\* the written value v is the quantity n / k itself
IsExactly(v, n, k) == v * k = n

\* the written value v is the quantity n / k with its fraction dropped
IsTruncationOf(v, n, k) == v = Trunc(n, k)

\* the write made for an unconstrained record is the start cell's top-left and the
\* union of the start and end cells, each value related to its quantity by Written
WritesUnionRect(w, rec, Written(_, _, _)) ==
    /\ w.item = rec.item
    /\ Written(w.pos[1], StartCol(rec).pos, Cells.kx)
    /\ Written(w.pos[2], StartRow(rec).pos, Cells.ky)
    /\ Written(w.width, EndCol(rec).pos + EndCol(rec).extent - StartCol(rec).pos, Cells.kx)
    /\ Written(w.height, EndRow(rec).pos + EndRow(rec).extent - StartRow(rec).pos, Cells.ky)
    /\ rec.coords1 = rec.coords2 =>
          /\ Written(w.width, StartCol(rec).extent, Cells.kx)
          /\ Written(w.height, StartRow(rec).extent, Cells.ky)
    /\ (AllUniform /\ CoversTwoByTwo(rec) /\ _spacing = <<0, 0>> /\ _padding = <<0, 0>>) =>
          /\ w.width = target[1]
          /\ w.height = target[2]

\* C11 as stated: for an unconstrained item (max_width = max_height = 0) redraw writes
\* the top-left of the start cell as the position and the union of the start and end
\* cell rects as the size; a single-cell item gets exactly its cell's rect; an item
\* over (0,0)-(1,1) of a 2x2 equal-weight grid with no spacing or padding gets the
\* whole content width and height.
C11_UnconstrainedGetsUnionRect ==
    LaidOut =>
        /\ Len(writes) = Len(_items)
        /\ \A i \in 1..Len(_items) :
               Unconstrained(_items[i]) => WritesUnionRect(writes[i], _items[i], IsExactly)

\* C11 amended: the position and the size written are those quantities with the
\* fraction dropped (int()); the 2x2 item still gets the whole width and height.
C11_UnconstrainedGetsTruncatedUnionRect ==
    LaidOut =>
        /\ Len(writes) = Len(_items)
        /\ \A i \in 1..Len(_items) :
               Unconstrained(_items[i]) => WritesUnionRect(writes[i], _items[i], IsTruncationOf)

\* an unconstrained item packed over (0,0)-(1,1) of a 2x2 equal-weight grid without
\* spacing or padding has just been written the whole of the large target
C11_Witness ==
    /\ LaidOut /\ AllUniform
    /\ last.op = "pack"
    /\ Len(_items) = 1 /\ Len(writes) = 1
    /\ Unconstrained(_items[1]) /\ CoversTwoByTwo(_items[1])
    /\ _spacing = <<0, 0>> /\ _padding = <<0, 0>>
    /\ target = <<TargetLarge, TargetLarge>>
    /\ writes[1].pos = <<0, 0>>
    /\ writes[1].width = TargetLarge /\ writes[1].height = TargetLarge

----------------------------------------------------------------------------
(* C12 *)

\* C12: every width and every height redraw passes to the host for a registered item
\* is an integer of at least 1, whatever the spacing, the padding, the policies, the
\* target's rect and the order of a record's cells; when max_width > 0 the written
\* width is moreover no larger than max_width and no larger than the bounding width.
C12_WrittenSizesAtLeastOne ==
    LaidOut =>
        \A i \in 1..Len(writes) :
            /\ writes[i].width \in Int /\ writes[i].width >= 1
            /\ writes[i].height \in Int /\ writes[i].height >= 1
            /\ _items[i].width > 0 =>
                  /\ writes[i].width <= _items[i].width
                  /\ writes[i].width * Cells.kx
                        <= EndCol(_items[i]).pos + EndCol(_items[i]).extent - StartCol(_items[i]).pos

====
